---------------------------- MODULE Spec2Model ----------------------------
(* The self-reflective retrieval loop of src/Flows/SelfFlow.py as a state  *)
(* machine: the LangGraph graph built by SelfFlow.generate_graph, its four *)
(* nodes, its two conditional edges, and SelfFlow.run around it; and the   *)
(* router graph of src/AdaptiveFlow.py, which calls SelfFlow.run from its  *)
(* node call_self_rag; and the corrective graph of src/Flows/CragFlow.py.  *)
(*                                                                         *)
(* External services (vector retriever, LLM graders, generator, rewriter)  *)
(* are nondeterministic: every call returns any value of its result set   *)
(* or faults.  A question and a generated text are identifiers.            *)
EXTENDS Integers, Sequences, FiniteSets, TLC

(***************************************************************************)
(* Program constants and model bounds                                      *)
(***************************************************************************)
\* config = {"recursion_limit": 15}
RecursionLimit == 15
\* "top_k" : 3 in PineConeHandler.compare_embeddings
TopK == 3
\* number of distinct question strings (the caller's and the rewriter's)
NumQuestions == 2
\* number of distinct texts the generator can produce
NumAnswers == 2
\* TavilySearchResults(k=3)
WebK == 3
\* number of distinct result snippets the web search can return
NumSnippets == 2

Questions == 1..NumQuestions
Answers == 1..NumAnswers

\* binary_score of the three graders
Grades == {"yes", "no"}
Fault == "fault"
GradeOutcomes == Grades \cup {Fault}

\* the outcome of a call that returns a text: the text, or an exception
Returned(v) == <<"returned", v>>
Raised == <<"raised", 0>>

Nodes == {"retrieve", "grade_documents", "generate", "transform_query"}

\* what compare_embeddings can return: the hits of one search, ranked, at
\* most top_k of them.  A passage is identified by its rank in the search
\* that returned it, so a hit list is <<1, ..., k>>.
HitLists == {[i \in 1..k |-> i] : k \in 0..TopK}
Passages == 1..TopK

(***************************************************************************)
(* Texts built by the code (f-strings over the question)                   *)
(***************************************************************************)
EmptyGeneration == <<"empty", 0>>
LlmGeneration(a) == <<"llm", a>>
NoDocsGeneration(q) == <<"no_information", q>>
GenerationErrorMessage(q) == <<"generation_error", q>>
ApologyMessage(q) == <<"apology", q>>

(***************************************************************************)
(* State                                                                   *)
(***************************************************************************)
VARIABLES
    question0,   \* the argument of SelfFlow.run
    state,       \* the SelfState dict of the graph execution
    pc,          \* the function the graph runs next, "END", or "returned"
    steps,       \* node executions so far in this graph.invoke
    result,      \* what run returned (NoResult until it returns)
    last,        \* the function executed last, the state it read, what it called
    visits,      \* executions of each node
    tq_from,     \* transform_query transitions taken, by the edge that chose them
    forced,      \* set once decide_to_generate forces generation without documents
    hallucLog,   \* results of the hallucination grader, in call order
    genStreak,   \* inputs of the Generate executions since the last other node
    first,       \* the first grading pass (hits, hits kept) and the first check's label
    io,          \* the service calls of the function executed last, in call order
    aquestion,   \* the argument of AdaptiveFlow.run
    astate,      \* the AdaptiveState dict of the router graph
    apc,         \* the function the router graph runs next, "END", or "returned"
    aresult,     \* what AdaptiveFlow.run returned (NoResult until it returns)
    alast,       \* the router-graph function executed last and what it decided
    cquestion,   \* the argument of CragFlow.run
    cstate,      \* the CragState dict of the corrective graph
    cpc,         \* the function the corrective graph runs next, "END", "returned", "raised"
    cresult,     \* what CragFlow.run returned (NoResult until it returns)
    ctrace,      \* the nodes of the corrective graph executed so far, in order
    cgraded      \* the passages grade_documents read and the grades it got for them

\* the variables of AdaptiveFlow
avars == <<aquestion, astate, apc, aresult, alast>>
\* the variables of CragFlow
cvars == <<cquestion, cstate, cpc, cresult, ctrace, cgraded>>
\* the variables of SelfFlow
svars == <<question0, state, pc, steps, result, last, visits, tq_from, forced,
           hallucLog, genStreak, first, io>>
vars == <<question0, state, pc, steps, result, last, visits, tq_from, forced,
          hallucLog, genStreak, first, io, aquestion, astate, apc, aresult, alast,
          cquestion, cstate, cpc, cresult, ctrace, cgraded>>

\* one call of an external service: its arguments and what came back
Call(service, args, outcome) ==
    [service |-> service, args |-> args, outcome |-> outcome]

NoResult == [kind |-> "none"]
NoCalls == [retrieval_grader |-> 0, hallucination_grader |-> 0,
            answer_grader |-> 0, generator |-> 0, rewriter |-> 0]
NothingYet == [retrieved |-> -1, kept |-> -1, label |-> ""]
NotForced == [on |-> FALSE, retrieve |-> 0, transform_query |-> 0]

\* the dict run passes to graph.invoke
InitialState(q) ==
    [question |-> q, documents |-> <<>>, generation |-> EmptyGeneration,
     retry_count |-> 0]

\* variant: the except branch returns no message
FallbackResult_no_message(q) ==
    [question |-> q, documents |-> <<>>, generation |-> EmptyGeneration,
     retry_count |-> 0]

\* the dict run returns from its except branch
FallbackResult(q) ==
    [question |-> q, documents |-> <<>>, generation |-> ApologyMessage(q),
     retry_count |-> 0]

GenInput(st) ==
    [question |-> st.question, documents |-> st.documents,
     retry_count |-> st.retry_count]

(***************************************************************************)
(* The nodes and edges as functions of the state dict and of the results   *)
(* of the external calls they make                                         *)
(***************************************************************************)
\* variant: retrieve returns the default retry_count of state.get
retrieve_resets_retry(st, hits) ==
    [st EXCEPT !.documents = hits, !.retry_count = 0]

\* retrieve: documents replaced by the hits, question and retry_count kept
retrieve(st, hits) ==
    [st EXCEPT !.documents = hits]

RECURSIVE KeepGraded_drops_on_fault(_, _, _)
\* variant: a document whose grading raised is dropped
KeepGraded_drops_on_fault(docs, grades, i) ==
    IF i > Len(docs) THEN <<>>
    ELSE IF grades[i] = "yes"
         THEN <<docs[i]>> \o KeepGraded_drops_on_fault(docs, grades, i + 1)
         ELSE KeepGraded_drops_on_fault(docs, grades, i + 1)

RECURSIVE KeepGraded(_, _, _)
\* the for loop of grade_documents from position i on: a document is
\* appended when its grade is "yes" or when grading it raised
KeepGraded(docs, grades, i) ==
    IF i > Len(docs) THEN <<>>
    ELSE IF grades[i] = "yes" \/ grades[i] = Fault
         THEN <<docs[i]>> \o KeepGraded(docs, grades, i + 1)
         ELSE KeepGraded(docs, grades, i + 1)

\* the retrieval_grader.invoke calls of the for loop of grade_documents: one
\* per document, in list order, with the question and that document
GradingCalls(st, grades) ==
    [i \in 1..Len(st.documents) |->
        Call("retrieval_grader", <<st.question, st.documents[i]>>, grades[i])]

\* variant: leniency starts one retry later
grade_documents_lenient_at_3(st, grades) ==
    IF st.retry_count >= 3
    THEN [out |-> st, graded |-> 0, calls |-> <<>>]
    ELSE [out |-> [st EXCEPT !.documents = KeepGraded(st.documents, grades, 1)],
          graded |-> Len(st.documents), calls |-> GradingCalls(st, grades)]

\* grade_documents: [out: the state update merged, graded: grader calls made,
\* calls: those calls]
grade_documents(st, grades) ==
    IF st.retry_count >= 2
    THEN [out |-> st, graded |-> 0, calls |-> <<>>]
    ELSE [out |-> [st EXCEPT !.documents = KeepGraded(st.documents, grades, 1)],
          graded |-> Len(st.documents), calls |-> GradingCalls(st, grades)]

\* variant: generation is forced one retry later
decide_to_generate_retry4(st) ==
    IF st.documents = <<>>
    THEN IF st.retry_count >= 4 THEN "generate" ELSE "transform_query"
    ELSE "generate"

\* variant: generation without documents is forced one retry earlier
decide_to_generate_forces_at_2(st) ==
    IF st.documents = <<>>
    THEN IF st.retry_count >= 2 THEN "generate" ELSE "transform_query"
    ELSE "generate"

\* decide_to_generate: the name of the next node
decide_to_generate(st) ==
    IF st.documents = <<>>
    THEN IF st.retry_count >= 3 THEN "generate" ELSE "transform_query"
    ELSE "generate"

\* variant: generate counts itself as a retry
generate_counts_retry(st, gen) ==
    IF st.documents = <<>>
    THEN [out |-> [st EXCEPT !.generation = NoDocsGeneration(st.question),
                             !.retry_count = @ + 1],
          generated |-> 0, calls |-> <<>>]
    ELSE [out |-> [st EXCEPT !.generation =
                       IF gen = Raised THEN GenerationErrorMessage(st.question)
                       ELSE LlmGeneration(gen[2]),
                             !.retry_count = @ + 1],
          generated |-> 1,
          calls |-> <<Call("generator", <<st.documents, st.question>>, gen)>>]

\* variant: the rag chain is invoked without looking at the documents
generate_always_calls(st, gen) ==
    [out |-> [st EXCEPT !.generation =
                  IF gen = Raised THEN GenerationErrorMessage(st.question)
                  ELSE LlmGeneration(gen[2])],
     generated |-> 1,
     calls |-> <<Call("generator", <<st.documents, st.question>>, gen)>>]

\* variant: generate does not return the documents it used
generate_clears_documents(st, gen) ==
    IF st.documents = <<>>
    THEN [out |-> [st EXCEPT !.generation = NoDocsGeneration(st.question)],
          generated |-> 0, calls |-> <<>>]
    ELSE [out |-> [st EXCEPT !.generation =
                       IF gen = Raised THEN GenerationErrorMessage(st.question)
                       ELSE LlmGeneration(gen[2]),
                             !.documents = <<>>],
          generated |-> 1,
          calls |-> <<Call("generator", <<st.documents, st.question>>, gen)>>]

\* generate: gen is Returned(text) of the rag chain, or Raised
generate(st, gen) ==
    IF st.documents = <<>>
    THEN [out |-> [st EXCEPT !.generation = NoDocsGeneration(st.question)],
          generated |-> 0, calls |-> <<>>]
    ELSE [out |-> [st EXCEPT !.generation =
                       IF gen = Raised THEN GenerationErrorMessage(st.question)
                       ELSE LlmGeneration(gen[2])],
          generated |-> 1,
          calls |-> <<Call("generator", <<st.documents, st.question>>, gen)>>]

\* variant: the incremented retry_count is not written back
transform_query_no_increment(st, rewritten) ==
    LET retry_count == st.retry_count + 1
    IN [out |-> [st EXCEPT !.question = IF rewritten = Raised THEN st.question
                                        ELSE rewritten[2]],
        mode |-> IF retry_count >= 2 THEN "aggressive" ELSE "normal",
        calls |-> <<Call("rewriter",
                         <<st.question,
                           IF retry_count >= 2 THEN "aggressive" ELSE "normal">>,
                         rewritten)>>]

\* variant: a failed rewrite returns the state as it was read
transform_query_fault_keeps_count(st, rewritten) ==
    LET retry_count == st.retry_count + 1
    IN [out |-> IF rewritten = Raised THEN st
                ELSE [st EXCEPT !.question = rewritten[2],
                                !.retry_count = retry_count],
        mode |-> IF retry_count >= 2 THEN "aggressive" ELSE "normal",
        calls |-> <<Call("rewriter",
                         <<st.question,
                           IF retry_count >= 2 THEN "aggressive" ELSE "normal">>,
                         rewritten)>>]

\* variant: the aggressive prompt starts one retry later
transform_query_aggressive_at_3(st, rewritten) ==
    LET retry_count == st.retry_count + 1
    IN [out |-> [st EXCEPT !.question = IF rewritten = Raised THEN st.question
                                        ELSE rewritten[2],
                           !.retry_count = retry_count],
        mode |-> IF retry_count >= 3 THEN "aggressive" ELSE "normal",
        calls |-> <<Call("rewriter",
                         <<st.question,
                           IF retry_count >= 3 THEN "aggressive" ELSE "normal">>,
                         rewritten)>>]

\* transform_query: rewritten is Returned(text) of the rewriter, or Raised
transform_query(st, rewritten) ==
    LET retry_count == st.retry_count + 1
    IN [out |-> [st EXCEPT !.question = IF rewritten = Raised THEN st.question
                                        ELSE rewritten[2],
                           !.retry_count = retry_count],
        mode |-> IF retry_count >= 2 THEN "aggressive" ELSE "normal",
        calls |-> <<Call("rewriter",
                         <<st.question,
                           IF retry_count >= 2 THEN "aggressive" ELSE "normal">>,
                         rewritten)>>]

\* hallucination_grader.invoke({"documents", "generation"})
HallucinationCall(st, h) ==
    Call("hallucination_grader", <<st.documents, st.generation>>, h)
\* answer_grader.invoke({"question", "generation"})
AnswerCall(st, a) ==
    Call("answer_grader", <<st.question, st.generation>>, a)

\* variant: the short circuit starts one retry later
grade_generation_limit_3(st, h, a) ==
    IF st.retry_count >= 3 \/ st.documents = <<>>
    THEN [label |-> "useful", hallucination_grader |-> 0, answer_grader |-> 0,
          calls |-> <<>>]
    ELSE IF h = Fault
    THEN [label |-> "useful", hallucination_grader |-> 1, answer_grader |-> 0,
          calls |-> <<HallucinationCall(st, h)>>]
    ELSE IF h = "yes"
    THEN [label |-> IF a = Fault THEN "useful"
                    ELSE IF a = "yes" THEN "useful" ELSE "not useful",
          hallucination_grader |-> 1, answer_grader |-> 1,
          calls |-> <<HallucinationCall(st, h), AnswerCall(st, a)>>]
    ELSE [label |-> "not supported", hallucination_grader |-> 1,
          answer_grader |-> 0, calls |-> <<HallucinationCall(st, h)>>]

\* variant: a grounded generation is accepted without the answer grader
grade_generation_skips_answer(st, h, a) ==
    IF st.retry_count >= 2 \/ st.documents = <<>>
    THEN [label |-> "useful", hallucination_grader |-> 0, answer_grader |-> 0,
          calls |-> <<>>]
    ELSE IF h = Fault
    THEN [label |-> "useful", hallucination_grader |-> 1, answer_grader |-> 0,
          calls |-> <<HallucinationCall(st, h)>>]
    ELSE IF h = "yes"
    THEN [label |-> "useful", hallucination_grader |-> 1, answer_grader |-> 0,
          calls |-> <<HallucinationCall(st, h)>>]
    ELSE [label |-> "not supported", hallucination_grader |-> 1,
          answer_grader |-> 0, calls |-> <<HallucinationCall(st, h)>>]

\* variant: a grader fault is treated like an unsupported generation
grade_generation_fault_regenerates(st, h, a) ==
    IF st.retry_count >= 2 \/ st.documents = <<>>
    THEN [label |-> "useful", hallucination_grader |-> 0, answer_grader |-> 0,
          calls |-> <<>>]
    ELSE IF h = Fault
    THEN [label |-> "not supported", hallucination_grader |-> 1,
          answer_grader |-> 0, calls |-> <<HallucinationCall(st, h)>>]
    ELSE IF h = "yes"
    THEN [label |-> IF a = Fault THEN "not supported"
                    ELSE IF a = "yes" THEN "useful" ELSE "not useful",
          hallucination_grader |-> 1, answer_grader |-> 1,
          calls |-> <<HallucinationCall(st, h), AnswerCall(st, a)>>]
    ELSE [label |-> "not supported", hallucination_grader |-> 1,
          answer_grader |-> 0, calls |-> <<HallucinationCall(st, h)>>]

\* variant: the answer grader is asked about ungrounded generations too
grade_generation_answers_unsupported(st, h, a) ==
    IF st.retry_count >= 2 \/ st.documents = <<>>
    THEN [label |-> "useful", hallucination_grader |-> 0, answer_grader |-> 0,
          calls |-> <<>>]
    ELSE IF h = Fault
    THEN [label |-> "useful", hallucination_grader |-> 1, answer_grader |-> 0,
          calls |-> <<HallucinationCall(st, h)>>]
    ELSE IF h = "yes"
    THEN [label |-> IF a = Fault THEN "useful"
                    ELSE IF a = "yes" THEN "useful" ELSE "not useful",
          hallucination_grader |-> 1, answer_grader |-> 1,
          calls |-> <<HallucinationCall(st, h), AnswerCall(st, a)>>]
    ELSE [label |-> IF a = Fault THEN "useful" ELSE "not supported",
          hallucination_grader |-> 1, answer_grader |-> 1,
          calls |-> <<HallucinationCall(st, h), AnswerCall(st, a)>>]

\* grade_generation_v_documents_and_question: h and a are what the
\* hallucination grader and the answer grader return when they are called
grade_generation_v_documents_and_question(st, h, a) ==
    IF st.retry_count >= 2 \/ st.documents = <<>>
    THEN [label |-> "useful", hallucination_grader |-> 0, answer_grader |-> 0,
          calls |-> <<>>]
    ELSE IF h = Fault
    THEN [label |-> "useful", hallucination_grader |-> 1, answer_grader |-> 0,
          calls |-> <<HallucinationCall(st, h)>>]
    ELSE IF h = "yes"
    THEN [label |-> IF a = Fault THEN "useful"
                    ELSE IF a = "yes" THEN "useful" ELSE "not useful",
          hallucination_grader |-> 1, answer_grader |-> 1,
          calls |-> <<HallucinationCall(st, h), AnswerCall(st, a)>>]
    ELSE [label |-> "not supported", hallucination_grader |-> 1,
          answer_grader |-> 0, calls |-> <<HallucinationCall(st, h)>>]

\* variant: an unsupported generation is sent to the rewriter
GenerationEdge_unsupported_rewrites(label) ==
    CASE label = "not supported" -> "transform_query"
      [] label = "useful" -> "END"
      [] label = "not useful" -> "transform_query"

\* the mapping of the conditional edge out of generate
GenerationEdge(label) ==
    CASE label = "not supported" -> "generate"
      [] label = "useful" -> "END"
      [] label = "not useful" -> "transform_query"

(***************************************************************************)
(* Initial state: run(question0) has called graph.invoke                   *)
(***************************************************************************)
\* no grading pass of the corrective graph has run
NotGraded == [done |-> FALSE, documents |-> <<>>, grades |-> <<>>]

\* CragFlow.run is not called
CragNotUsed ==
    /\ cquestion = 0
    /\ cstate = [question |-> 0, generation |-> EmptyGeneration, web_search |-> "",
                 documents |-> <<>>]
    /\ cpc = "unused"
    /\ cresult = NoResult
    /\ ctrace = <<>>
    /\ cgraded = NotGraded

\* what alast holds after a function that took no routing decision
NoDecision(fn) == [fn |-> fn, datasource |-> "", branch |-> "", cause |-> ""]

\* SelfFlow.run called on its own: no AdaptiveFlow around it
AdaptiveNotUsed ==
    /\ aquestion = 0
    /\ astate = [question |-> 0, generation |-> EmptyGeneration, documents |-> <<>>]
    /\ apc = "unused"
    /\ aresult = NoResult
    /\ alast = NoDecision("unused")

Init ==
    /\ question0 \in Questions
    /\ state = InitialState(question0)
    /\ pc = "retrieve"
    /\ steps = 0
    /\ result = NoResult
    /\ last = [fn |-> "START", in |-> InitialState(question0), calls |-> NoCalls,
               label |-> "", mode |-> ""]
    /\ visits = [n \in Nodes |-> 0]
    /\ tq_from = [grade_documents |-> 0, generate |-> 0]
    /\ forced = NotForced
    /\ hallucLog = <<>>
    /\ genStreak = <<>>
    /\ first = NothingYet
    /\ io = <<>>
    /\ AdaptiveNotUsed
    /\ CragNotUsed

\* a node may run while the graph has steps left: recursion_limit bounds the
\* node executions of one graph.invoke (the conditional edges are evaluated
\* with the node they follow and use no step of their own)
CanStep(node) == pc = node /\ steps < RecursionLimit

Visit(node) == visits' = [visits EXCEPT ![node] = @ + 1]

(***************************************************************************)
(* Actions                                                                 *)
(***************************************************************************)
\* node retrieve, the retriever answering
Retrieve ==
    /\ CanStep("retrieve")
    /\ \E hits \in HitLists :
         /\ state' = retrieve(state, hits)
         /\ io' = <<Call("retriever", <<state.question>>, Returned(hits))>>
         /\ last' = [fn |-> "retrieve", in |-> state, calls |-> NoCalls,
                     label |-> "", mode |-> ""]
    /\ pc' = "grade_documents"
    /\ steps' = steps + 1
    /\ Visit("retrieve")
    /\ genStreak' = <<>>
    /\ UNCHANGED <<question0, result, tq_from, forced, hallucLog, first>>
    /\ UNCHANGED avars
    /\ UNCHANGED cvars

\* node retrieve, compare_embeddings raising: nothing in retrieve catches it,
\* graph.invoke raises and run's except branch returns the fallback
RetrieveRaises ==
    /\ CanStep("retrieve")
    /\ pc' = "returned"
    /\ result' = FallbackResult(question0)
    /\ last' = [fn |-> "except", in |-> state, calls |-> NoCalls,
                label |-> "retrieval_failure", mode |-> ""]
    /\ io' = <<Call("retriever", <<state.question>>, Raised)>>
    /\ steps' = steps + 1
    /\ Visit("retrieve")
    /\ UNCHANGED <<question0, state, tq_from, forced, hallucLog, genStreak, first>>
    /\ UNCHANGED avars
    /\ UNCHANGED cvars

\* node grade_documents
GradeDocuments ==
    /\ CanStep("grade_documents")
    /\ \E grades \in [1..Len(state.documents) -> GradeOutcomes] :
         LET r == grade_documents(state, grades)
         IN /\ state' = r.out
            /\ last' = [fn |-> "grade_documents", in |-> state,
                        calls |-> [NoCalls EXCEPT !.retrieval_grader = r.graded],
                        label |-> "", mode |-> ""]
            /\ io' = r.calls
            /\ first' = IF visits["grade_documents"] = 0
                        THEN [first EXCEPT !.retrieved = Len(state.documents),
                                           !.kept = Len(r.out.documents)]
                        ELSE first
    /\ pc' = "decide_to_generate"
    /\ steps' = steps + 1
    /\ Visit("grade_documents")
    /\ genStreak' = <<>>
    /\ UNCHANGED <<question0, result, tq_from, forced, hallucLog>>
    /\ UNCHANGED avars
    /\ UNCHANGED cvars

\* conditional edge after grade_documents
DecideToGenerate ==
    /\ pc = "decide_to_generate"
    /\ LET next == decide_to_generate(state)
       IN /\ pc' = next
          /\ last' = [fn |-> "decide_to_generate", in |-> state, calls |-> NoCalls,
                      label |-> next, mode |-> ""]
          /\ tq_from' = IF next = "transform_query"
                        THEN [tq_from EXCEPT !.grade_documents = @ + 1]
                        ELSE tq_from
          /\ forced' = IF next = "generate" /\ state.documents = <<>>
                       THEN [on |-> TRUE, retrieve |-> visits["retrieve"],
                             transform_query |-> visits["transform_query"]]
                       ELSE forced
    /\ io' = <<>>
    /\ UNCHANGED <<question0, state, steps, result, visits, hallucLog, genStreak, first>>
    /\ UNCHANGED avars
    /\ UNCHANGED cvars

\* node generate
Generate ==
    /\ CanStep("generate")
    /\ \E gen \in {Returned(a) : a \in Answers} \cup {Raised} :
         LET r == generate(state, gen)
         IN /\ state' = r.out
            /\ last' = [fn |-> "generate", in |-> state,
                        calls |-> [NoCalls EXCEPT !.generator = r.generated],
                        label |-> "", mode |-> ""]
            /\ io' = r.calls
    /\ pc' = "grade_generation"
    /\ steps' = steps + 1
    /\ Visit("generate")
    /\ genStreak' = Append(genStreak, GenInput(state))
    /\ UNCHANGED <<question0, result, tq_from, forced, hallucLog, first>>
    /\ UNCHANGED avars
    /\ UNCHANGED cvars

\* conditional edge after generate
GradeGeneration ==
    /\ pc = "grade_generation"
    /\ \E h \in GradeOutcomes, a \in GradeOutcomes :
         LET r == grade_generation_v_documents_and_question(state, h, a)
         IN /\ pc' = GenerationEdge(r.label)
            /\ last' = [fn |-> "grade_generation", in |-> state,
                        calls |-> [NoCalls EXCEPT
                                     !.hallucination_grader = r.hallucination_grader,
                                     !.answer_grader = r.answer_grader],
                        label |-> r.label, mode |-> ""]
            /\ io' = r.calls
            /\ hallucLog' = IF r.hallucination_grader = 1
                            THEN Append(hallucLog, h) ELSE hallucLog
            /\ tq_from' = IF r.label = "not useful"
                          THEN [tq_from EXCEPT !.generate = @ + 1]
                          ELSE tq_from
            /\ first' = IF first.label = "" THEN [first EXCEPT !.label = r.label]
                        ELSE first
    /\ UNCHANGED <<question0, state, steps, result, visits, forced, genStreak>>
    /\ UNCHANGED avars
    /\ UNCHANGED cvars

\* node transform_query
TransformQuery ==
    /\ CanStep("transform_query")
    /\ \E rewritten \in {Returned(q) : q \in Questions} \cup {Raised} :
         LET r == transform_query(state, rewritten)
         IN /\ state' = r.out
            /\ last' = [fn |-> "transform_query", in |-> state,
                        calls |-> [NoCalls EXCEPT !.rewriter = 1],
                        label |-> IF rewritten = Raised THEN "rewrite_failure" ELSE "",
                        mode |-> r.mode]
            /\ io' = r.calls
    /\ pc' = "retrieve"
    /\ steps' = steps + 1
    /\ Visit("transform_query")
    /\ genStreak' = <<>>
    /\ UNCHANGED <<question0, result, tq_from, forced, hallucLog, first>>
    /\ UNCHANGED avars
    /\ UNCHANGED cvars

\* the graph has used its recursion_limit and a node is still due:
\* graph.invoke raises GraphRecursionError, run's except branch answers
StepLimitExceeded ==
    /\ pc \in Nodes
    /\ steps >= RecursionLimit
    /\ pc' = "returned"
    /\ result' = FallbackResult(question0)
    /\ last' = [fn |-> "except", in |-> state, calls |-> NoCalls,
                label |-> "step_limit", mode |-> ""]
    /\ io' = <<>>
    /\ UNCHANGED <<question0, state, steps, visits, tq_from, forced, hallucLog,
                   genStreak, first>>
    /\ UNCHANGED avars
    /\ UNCHANGED cvars

\* the graph reached END: graph.invoke returns the final state, run returns it
ReturnResult ==
    /\ pc = "END"
    /\ pc' = "returned"
    /\ result' = state
    /\ last' = [last EXCEPT !.fn = "return"]
    /\ io' = <<>>
    /\ UNCHANGED <<question0, state, steps, visits, tq_from, forced, hallucLog,
                   genStreak, first>>
    /\ UNCHANGED avars
    /\ UNCHANGED cvars

Next ==
    \/ Retrieve
    \/ RetrieveRaises
    \/ GradeDocuments
    \/ DecideToGenerate
    \/ Generate
    \/ GradeGeneration
    \/ TransformQuery
    \/ StepLimitExceeded
    \/ ReturnResult

Spec == Init /\ [][Next]_vars

TypeOK ==
    /\ question0 \in Questions
    /\ state.question \in Questions
    /\ state.documents \in Seq(Passages)
    /\ state.retry_count \in Nat
    /\ pc \in Nodes \cup {"decide_to_generate", "grade_generation", "END", "returned"}
    /\ steps \in 0..RecursionLimit

(***************************************************************************)
(* AdaptiveFlow: the router graph, src/AdaptiveFlow.py                     *)
(***************************************************************************)
\* RouteQuery.datasource: Literal["self-flow", "web_search"]
Datasources == {"self-flow", "web_search"}

\* the contents of the results the web search tool returns, at most k of them
Snippets == 1..NumSnippets
WebResults == UNION {[1..n -> Snippets] : n \in 0..WebK}

\* "\n".join(...): a text is modelled as the sequence of its lines
JoinLines(contents) == contents
\* Document(page_content=...)
Document(page_content) == <<"Document", page_content>>

AdaptiveErrorMessage(q) == <<"adaptive_error", q>>
CouldNotGenerateMessage(q) == <<"could_not_generate", q>>

\* the dict AdaptiveFlow.run passes to graph.invoke
InitialAdaptiveState(q) ==
    [question |-> q, generation |-> EmptyGeneration, documents |-> <<>>]

\* variant: the except branch of AdaptiveFlow.run reuses SelfFlow's apology
AdaptiveFallback_self_message(q) ==
    [question |-> q, generation |-> ApologyMessage(q), documents |-> <<>>]

\* the dict AdaptiveFlow.run returns from its except branch
AdaptiveFallback(q) ==
    [question |-> q, generation |-> AdaptiveErrorMessage(q), documents |-> <<>>]

\* the conditional edge out of START: the branch name for a classification
route_query(datasource) ==
    IF datasource = "web-search" THEN "web_search" ELSE "call_self_rag"

\* the mapping of add_conditional_edges(START, route_query, {...})
RouteEdge(branch) ==
    IF branch = "web_search" THEN "transform_query" ELSE "call_self_rag"

\* node call_self_rag, SelfFlow.run having returned self_flow_state
call_self_rag(st, self_flow_state) ==
    [st EXCEPT !.generation = self_flow_state.generation,
               !.question = self_flow_state.question,
               !.documents = self_flow_state.documents]

\* node transform_query of AdaptiveFlow, the rewriter having returned
web_transform_query(st, better_question) ==
    [st EXCEPT !.question = better_question]

\* node web_search: the joined results, or an empty Document on any fault
search_web(st, outcome) ==
    [st EXCEPT !.documents =
        IF outcome = Raised THEN Document(<<>>)
        ELSE Document(JoinLines(outcome[2]))]

\* node generate_answer: the generation, or the placeholder on any fault
generate_answer(st, outcome) ==
    [st EXCEPT !.generation =
        IF outcome = Raised THEN CouldNotGenerateMessage(st.question)
        ELSE LlmGeneration(outcome[2])]

\* SelfFlow.run has not been called yet
SelfFlowIdle ==
    /\ question0 = 0
    /\ state = InitialState(0)
    /\ pc = "idle"
    /\ steps = 0
    /\ result = NoResult
    /\ last = [fn |-> "idle", in |-> InitialState(0), calls |-> NoCalls,
               label |-> "", mode |-> ""]
    /\ visits = [n \in Nodes |-> 0]
    /\ tq_from = [grade_documents |-> 0, generate |-> 0]
    /\ forced = NotForced
    /\ hallucLog = <<>>
    /\ genStreak = <<>>
    /\ first = NothingYet
    /\ io = <<>>

\* AdaptiveFlow.run(aquestion) has called graph.invoke
InitAdaptive ==
    /\ aquestion \in Questions
    /\ astate = InitialAdaptiveState(aquestion)
    /\ apc = "START"
    /\ aresult = NoResult
    /\ alast = NoDecision("START")
    /\ SelfFlowIdle
    /\ CragNotUsed

\* the conditional edge out of START, the routing classifier answering
RouteQuery ==
    /\ apc = "START"
    /\ \E datasource \in Datasources :
         /\ apc' = RouteEdge(route_query(datasource))
         /\ alast' = [fn |-> "route_query", datasource |-> datasource,
                      branch |-> route_query(datasource), cause |-> ""]
    /\ UNCHANGED <<aquestion, astate, aresult>>
    /\ UNCHANGED svars
    /\ UNCHANGED cvars

\* the routing classifier raises: route_query has no handler, graph.invoke
\* raises and run's except branch returns the fallback
RouteQueryRaises ==
    /\ apc = "START"
    /\ apc' = "returned"
    /\ aresult' = AdaptiveFallback(aquestion)
    /\ alast' = [fn |-> "except", datasource |-> "", branch |-> "",
                 cause |-> "route_query"]
    /\ UNCHANGED <<aquestion, astate>>
    /\ UNCHANGED svars
    /\ UNCHANGED cvars

\* node call_self_rag calls self_flow.run(state["question"])
CallSelfRag ==
    /\ apc = "call_self_rag"
    /\ pc = "idle"
    /\ question0' = astate.question
    /\ state' = InitialState(astate.question)
    /\ pc' = "retrieve"
    /\ last' = [fn |-> "START", in |-> InitialState(astate.question),
                calls |-> NoCalls, label |-> "", mode |-> ""]
    /\ alast' = NoDecision("call_self_rag")
    /\ UNCHANGED <<steps, result, visits, tq_from, forced, hallucLog, genStreak,
                   first, io>>
    /\ UNCHANGED <<aquestion, astate, apc, aresult>>
    /\ UNCHANGED cvars

\* self_flow.run has returned: call_self_rag copies its result, edge to END
CallSelfRagReturns ==
    /\ apc = "call_self_rag"
    /\ pc = "returned"
    /\ astate' = call_self_rag(astate, result)
    /\ apc' = "END"
    /\ alast' = NoDecision("call_self_rag_done")
    /\ UNCHANGED <<aquestion, aresult>>
    /\ UNCHANGED svars
    /\ UNCHANGED cvars

\* the router graph reached END: graph.invoke returns the final state
AdaptiveReturn ==
    /\ apc = "END"
    /\ apc' = "returned"
    /\ aresult' = astate
    /\ alast' = NoDecision("return")
    /\ UNCHANGED <<aquestion, astate>>
    /\ UNCHANGED svars
    /\ UNCHANGED cvars

NextAdaptive ==
    \/ RouteQuery
    \/ RouteQueryRaises
    \/ CallSelfRag
    \/ Retrieve
    \/ RetrieveRaises
    \/ GradeDocuments
    \/ DecideToGenerate
    \/ Generate
    \/ GradeGeneration
    \/ TransformQuery
    \/ StepLimitExceeded
    \/ ReturnResult
    \/ CallSelfRagReturns
    \/ AdaptiveReturn

SpecAdaptive == InitAdaptive /\ [][NextAdaptive]_vars

(***************************************************************************)
(* AdaptiveFlow: the web-search path, entered as the mapping of the        *)
(* conditional edge enters it for the branch "web_search"                  *)
(***************************************************************************)
InitWebPath ==
    /\ aquestion \in Questions
    /\ astate = InitialAdaptiveState(aquestion)
    /\ apc = RouteEdge("web_search")
    /\ aresult = NoResult
    /\ alast = [fn |-> "route_query", datasource |-> "", branch |-> "web_search",
                cause |-> ""]
    /\ SelfFlowIdle
    /\ CragNotUsed

\* node transform_query of AdaptiveFlow, the rewriter answering
WebTransformQuery ==
    /\ apc = "transform_query"
    /\ \E better_question \in Questions :
         astate' = web_transform_query(astate, better_question)
    /\ apc' = "web_search"
    /\ alast' = NoDecision("transform_query")
    /\ UNCHANGED <<aquestion, aresult>>
    /\ UNCHANGED svars
    /\ UNCHANGED cvars

\* the rewriter raises: transform_query has no handler, graph.invoke raises
\* and run's except branch returns the fallback
WebTransformQueryRaises ==
    /\ apc = "transform_query"
    /\ apc' = "returned"
    /\ aresult' = AdaptiveFallback(aquestion)
    /\ alast' = [fn |-> "except", datasource |-> "", branch |-> "",
                 cause |-> "transform_query"]
    /\ UNCHANGED <<aquestion, astate>>
    /\ UNCHANGED svars
    /\ UNCHANGED cvars

\* node web_search: the tool returns results or raises, both handled inside
SearchWeb ==
    /\ apc = "web_search"
    /\ \E outcome \in {Returned(r) : r \in WebResults} \cup {Raised} :
         /\ astate' = search_web(astate, outcome)
         /\ alast' = [fn |-> "web_search", datasource |-> "", branch |-> "",
                      cause |-> outcome[1]]
    /\ apc' = "generate_answer"
    /\ UNCHANGED <<aquestion, aresult>>
    /\ UNCHANGED svars
    /\ UNCHANGED cvars

\* node generate_answer: the chain returns or raises, both handled inside
GenerateAnswer ==
    /\ apc = "generate_answer"
    /\ \E outcome \in {Returned(a) : a \in Answers} \cup {Raised} :
         /\ astate' = generate_answer(astate, outcome)
         /\ alast' = [fn |-> "generate_answer", datasource |-> "", branch |-> "",
                      cause |-> outcome[1]]
    /\ apc' = "END"
    /\ UNCHANGED <<aquestion, aresult>>
    /\ UNCHANGED svars
    /\ UNCHANGED cvars

NextWebPath ==
    \/ WebTransformQuery
    \/ WebTransformQueryRaises
    \/ SearchWeb
    \/ GenerateAnswer
    \/ AdaptiveReturn

SpecWebPath == InitWebPath /\ [][NextWebPath]_vars

(***************************************************************************)
(* CragFlow: the corrective graph, src/Flows/CragFlow.py.  No function of  *)
(* it catches an exception: a raising call leaves graph.invoke and run.    *)
(***************************************************************************)
CragNodes == {"retrieve", "grade_documents", "generate", "transform_query",
              "web_search_node"}

\* the dict CragFlow.run passes to graph.invoke
InitialCragState(q) ==
    [question |-> q, generation |-> EmptyGeneration, web_search |-> "",
     documents |-> <<>>]

\* the passages compare_embeddings returns for a hit list: Documents whose
\* text is the one line that names the hit
HitDocuments(hits) == [i \in 1..Len(hits) |-> Document(<<hits[i]>>)]

\* retriever: documents replaced by the hits
crag_retriever(st, hits) ==
    [st EXCEPT !.documents = HitDocuments(hits)]

RECURSIVE KeepRelevant(_, _, _)
\* the for loop of CragFlow.grade_documents from position i on: a document
\* is appended when its grade is "yes"
KeepRelevant(docs, grades, i) ==
    IF i > Len(docs) THEN <<>>
    ELSE IF grades[i] = "yes"
         THEN <<docs[i]>> \o KeepRelevant(docs, grades, i + 1)
         ELSE KeepRelevant(docs, grades, i + 1)

\* variant: web search is asked for only when no document is kept
crag_grade_documents_when_none_kept(st, grades) ==
    [st EXCEPT !.documents = KeepRelevant(st.documents, grades, 1),
               !.web_search =
                   IF st.documents # <<>>
                      /\ KeepRelevant(st.documents, grades, 1) = <<>>
                   THEN "Yes" ELSE "No"]

\* grade_documents of CragFlow: web_search becomes "Yes" as soon as one
\* document is graded other than "yes"
crag_grade_documents(st, grades) ==
    [st EXCEPT !.documents = KeepRelevant(st.documents, grades, 1),
               !.web_search =
                   IF \E i \in 1..Len(st.documents) : grades[i] # "yes"
                   THEN "Yes" ELSE "No"]

\* decide_to_generate of CragFlow: the name of the next node
crag_decide_to_generate(st) ==
    IF st.web_search = "Yes" THEN "transform_query" ELSE "generate"

\* transform_query of CragFlow
crag_transform_query(st, better_question) ==
    [st EXCEPT !.question = better_question]

\* web_search of CragFlow: one Document with the joined results is appended
crag_web_search(st, results) ==
    [st EXCEPT !.documents = Append(@, Document(JoinLines(results)))]

\* generate of CragFlow
crag_generate(st, generation) ==
    [st EXCEPT !.generation = LlmGeneration(generation)]

\* CragFlow.run(cquestion) has called graph.invoke
InitCrag ==
    /\ cquestion \in Questions
    /\ cstate = InitialCragState(cquestion)
    /\ cpc = "retrieve"
    /\ cresult = NoResult
    /\ ctrace = <<>>
    /\ cgraded = NotGraded
    /\ SelfFlowIdle
    /\ AdaptiveNotUsed

\* node retrieve of CragFlow
CragRetrieve ==
    /\ cpc = "retrieve"
    /\ \E hits \in HitLists : cstate' = crag_retriever(cstate, hits)
    /\ cpc' = "grade_documents"
    /\ ctrace' = Append(ctrace, "retrieve")
    /\ UNCHANGED <<cquestion, cresult, cgraded>>
    /\ UNCHANGED <<svars, avars>>

\* node grade_documents of CragFlow, every grader call returning a grade
CragGradeDocuments ==
    /\ cpc = "grade_documents"
    /\ \E grades \in [1..Len(cstate.documents) -> Grades] :
         /\ cstate' = crag_grade_documents(cstate, grades)
         /\ cgraded' = [done |-> TRUE, documents |-> cstate.documents,
                        grades |-> grades]
    /\ cpc' = "decide_to_generate"
    /\ ctrace' = Append(ctrace, "grade_documents")
    /\ UNCHANGED <<cquestion, cresult>>
    /\ UNCHANGED <<svars, avars>>

\* conditional edge after grade_documents of CragFlow
CragDecideToGenerate ==
    /\ cpc = "decide_to_generate"
    /\ cpc' = crag_decide_to_generate(cstate)
    /\ UNCHANGED <<cquestion, cstate, cresult, ctrace, cgraded>>
    /\ UNCHANGED <<svars, avars>>

\* node transform_query of CragFlow
CragTransformQuery ==
    /\ cpc = "transform_query"
    /\ \E better_question \in Questions :
         cstate' = crag_transform_query(cstate, better_question)
    /\ cpc' = "web_search_node"
    /\ ctrace' = Append(ctrace, "transform_query")
    /\ UNCHANGED <<cquestion, cresult, cgraded>>
    /\ UNCHANGED <<svars, avars>>

\* node web_search_node of CragFlow
CragWebSearch ==
    /\ cpc = "web_search_node"
    /\ \E results \in WebResults : cstate' = crag_web_search(cstate, results)
    /\ cpc' = "generate"
    /\ ctrace' = Append(ctrace, "web_search_node")
    /\ UNCHANGED <<cquestion, cresult, cgraded>>
    /\ UNCHANGED <<svars, avars>>

\* node generate of CragFlow
CragGenerate ==
    /\ cpc = "generate"
    /\ \E generation \in Answers : cstate' = crag_generate(cstate, generation)
    /\ cpc' = "END"
    /\ ctrace' = Append(ctrace, "generate")
    /\ UNCHANGED <<cquestion, cresult, cgraded>>
    /\ UNCHANGED <<svars, avars>>

\* the service call of the node that is due raises (grade_documents calls
\* the grader only when it has a document): run raises to its caller
CragNodeRaises ==
    /\ cpc \in CragNodes
    /\ cpc = "grade_documents" => cstate.documents # <<>>
    /\ cpc' = "raised"
    /\ ctrace' = Append(ctrace, cpc)
    /\ UNCHANGED <<cquestion, cstate, cresult, cgraded>>
    /\ UNCHANGED <<svars, avars>>

\* the corrective graph reached END: run returns the final state
CragReturn ==
    /\ cpc = "END"
    /\ cpc' = "returned"
    /\ cresult' = cstate
    /\ UNCHANGED <<cquestion, cstate, ctrace, cgraded>>
    /\ UNCHANGED <<svars, avars>>

NextCrag ==
    \/ CragRetrieve
    \/ CragGradeDocuments
    \/ CragDecideToGenerate
    \/ CragTransformQuery
    \/ CragWebSearch
    \/ CragGenerate
    \/ CragNodeRaises
    \/ CragReturn

SpecCrag == InitCrag /\ [][NextCrag]_vars

(***************************************************************************)
(* Properties                                                              *)
(***************************************************************************)
StepLimitHit == last.fn = "except" /\ last.label = "step_limit"
Accepted == pc = "returned" /\ last.fn = "return"

\* C1: every loop execution started by run reaches Accept within the 15
\* node executions of the step limit, whatever the services answer; in
\* particular no execution hits the step limit.
C1_NeverHitsStepLimit == ~StepLimitHit

\* C2: retry_count never decreases and stays in 0..3; at most 3
\* transform_query transitions are chosen by decide_to_generate, at most 2 by
\* the "not useful" edge, and at most 3 rewrites run in total.
C2_RetryCountBoundsRewrites ==
    /\ state.retry_count \in 0..3
    /\ last.in.retry_count <= state.retry_count
    /\ tq_from.grade_documents <= 3
    /\ tq_from.generate <= 2
    /\ tq_from.grade_documents + tq_from.generate <= 3
    /\ visits["transform_query"] <= 3
    /\ visits["transform_query"] = state.retry_count

C2_Witness ==
    /\ state.retry_count = 3
    /\ tq_from.generate = 2
    /\ tq_from.grade_documents = 1
    /\ visits["transform_query"] = 3

\* C3: once decide_to_generate has chosen generate for an empty passage set
\* at retry_count 3, no further transform_query or retrieve runs and the
\* execution ends at Accept (it is not aborted).
C3_ForcedGenerationReachesAccept ==
    forced.on =>
        /\ visits["retrieve"] = forced.retrieve
        /\ visits["transform_query"] = forced.transform_query
        /\ last.fn # "except"

\* C4: grade_documents run with retry_count >= 2 returns the passage
\* sequence it received, unchanged, and calls the relevance grader for none.
C4_LenientGradingKeepsAll ==
    (last.fn = "grade_documents" /\ last.in.retry_count >= 2) =>
        /\ state.documents = last.in.documents
        /\ last.calls.retrieval_grader = 0

C4_Witness ==
    /\ last.fn = "grade_documents"
    /\ last.in.retry_count >= 2
    /\ Len(last.in.documents) = TopK
    /\ state.documents = last.in.documents

\* C5: the generation check run with retry_count >= 2 returns "useful" and
\* leads to END without calling the hallucination grader or the answer
\* grader, whatever the generation is.
C5_CheckAcceptsAtRetryLimit ==
    (last.fn = "grade_generation" /\ last.in.retry_count >= 2) =>
        /\ last.label = "useful"
        /\ pc = "END"
        /\ last.calls.hallucination_grader = 0
        /\ last.calls.answer_grader = 0

C5_Witness ==
    /\ last.fn = "grade_generation"
    /\ last.in.retry_count >= 2
    /\ last.in.documents # <<>>
    /\ last.in.generation[1] = "llm"
    /\ pc = "END"

\* the first retrieval returned top_k = 3 passages and grading kept all 3
FirstPassAllRelevant == first.retrieved = TopK /\ first.kept = TopK
\* the execution took Retrieve, GradeDocuments, Generate, the check, END
DirectPath ==
    /\ pc \in {"END", "returned"}
    /\ last.fn # "except"
    /\ visits = [n \in Nodes |-> IF n = "transform_query" THEN 0 ELSE 1]
    /\ steps = 3
    /\ state.retry_count = 0
    /\ (pc = "returned" => result.retry_count = 0)

\* C6 (as claimed): when the first retrieval returns 3 passages and all 3
\* are graded relevant, the execution takes the direct path Retrieve,
\* GradeDocuments, Generate, CheckGeneration, Accept, each once, without
\* TransformQuery, and ends with retry_count 0.
C6_AllRelevantGoesDirect ==
    (FirstPassAllRelevant /\ first.label # "") => DirectPath

\* C6 (amended): when the first retrieval returns 3 passages, all 3 are kept
\* by grading and the check of the first generation returns "useful", the
\* execution takes the direct path, each node once, without TransformQuery,
\* and ends with retry_count 0.
C6_AllRelevantAndUsefulGoesDirect ==
    (FirstPassAllRelevant /\ first.label = "useful") => DirectPath

C6_Witness ==
    /\ FirstPassAllRelevant
    /\ first.label = "useful"
    /\ Accepted
    /\ result.generation[1] = "llm"
    /\ hallucLog = <<"yes">>

\* the first two grading passes both left no passage: both rewrites so far
\* were chosen by decide_to_generate and generate has not run before them
TwoPassesIrrelevant == tq_from.grade_documents >= 2 /\ tq_from.generate = 0
ThirdPassDone ==
    /\ TwoPassesIrrelevant
    /\ last.fn = "grade_documents"
    /\ visits["grade_documents"] = 3

\* C7 (as claimed): after two passes in which every passage was graded
\* irrelevant, the third pass is the forced accept at retry_count = 3.
C7_ThirdPassForcedAtThree ==
    ThirdPassDone => state.retry_count = 3

\* C7 (amended): after two passes in which every passage was graded
\* irrelevant, the third pass runs at retry_count = 2: grade_documents keeps
\* every retrieved passage without grading, and if there is one, Generate
\* runs with them at retry_count = 2.  Only when the third retrieval is empty
\* does a third rewrite follow, and the fourth pass sends whatever the fourth
\* retrieval returned (possibly nothing) to Generate at retry_count = 3.
\* Generation is forced on an empty set only there.
C7_ThirdPassLenientAtTwo ==
    /\ ThirdPassDone =>
          /\ state.retry_count = 2
          /\ state.documents = last.in.documents
          /\ last.calls.retrieval_grader = 0
    /\ (TwoPassesIrrelevant /\ last.fn = "generate") =>
          /\ visits["generate"] = 1
          /\ \/ /\ state.retry_count = 2
                /\ visits["grade_documents"] = 3
                /\ state.documents # <<>>
             \/ /\ state.retry_count = 3
                /\ visits["grade_documents"] = 4
                /\ tq_from.grade_documents = 3
    /\ forced.on =>
          /\ state.retry_count = 3
          /\ state.documents = <<>>
          /\ visits["grade_documents"] >= 4

C7_Witness ==
    /\ TwoPassesIrrelevant
    /\ first.retrieved = TopK
    /\ last.fn = "generate"
    /\ state.retry_count = 2
    /\ Len(state.documents) = TopK

C7_WitnessForced ==
    /\ TwoPassesIrrelevant
    /\ forced.on
    /\ last.fn = "generate"
    /\ state.generation = <<"no_information", state.question>>

\* C8: when the hallucination grader answers "no" for the first generation
\* and "yes" for the second, Generate has run exactly twice, back to back,
\* on the same passages and question and with the same retry_count, with no
\* Retrieve or TransformQuery in between, and the next function is not
\* Generate.
C8_RegenerateOnceSameInputs ==
    (/\ last.fn = "grade_generation"
     /\ last.calls.hallucination_grader = 1
     /\ hallucLog = <<"no", "yes">>) =>
        /\ Len(genStreak) = 2
        /\ genStreak[1] = genStreak[2]
        /\ visits["generate"] = 2
        /\ GenInput(state) = genStreak[1]
        /\ pc # "generate"

C8_Witness ==
    /\ last.fn = "grade_generation"
    /\ last.calls.hallucination_grader = 1
    /\ hallucLog = <<"no", "yes">>
    /\ Len(genStreak) = 2
    /\ pc = "END"

\* C9: when the execution exceeds the step limit, or a fault escapes a
\* node, run returns (it does not raise) a result with the fixed apology as
\* generation, the caller's original question, no documents and
\* retry_count 0.
C9_FallbackResultOnAbort ==
    last.fn = "except" =>
        /\ pc = "returned"
        /\ result = [question |-> question0, documents |-> <<>>,
                     generation |-> <<"apology", question0>>, retry_count |-> 0]

C9_Witness ==
    /\ StepLimitHit
    /\ pc = "returned"
    /\ state.question # question0
    /\ state.retry_count > 0
    /\ state.documents # <<>>
    /\ result.question = question0

\* C10: every stage-local fault is absorbed in its stage and the loop goes
\* on; the only thing that aborts a loop execution is the step limit.
C10_OnlyStepLimitAborts ==
    last.fn = "except" => last.label = "step_limit"

Graders == {"retrieval_grader", "hallucination_grader", "answer_grader"}
\* the call c raised
Faulted(c) ==
    IF c.service \in Graders THEN c.outcome = "fault"
    ELSE c.outcome[1] = "raised"
\* some call of the function executed last raised
SomeCallFaulted == \E i \in 1..Len(io) : Faulted(io[i])

\* C14: when the generation check runs with retry_count < 2, a non-empty
\* passage set and no grader fault: a hallucination grade other than "yes"
\* gives "not supported" (back to generate) and the answer grader is not
\* called; "yes" followed by the answer grade "yes" gives "useful" (END);
\* "yes" followed by another answer grade gives "not useful"
\* (transform_query).
C14_StrictCheckOutcomes ==
    (/\ last.fn = "grade_generation"
     /\ last.in.retry_count < 2
     /\ last.in.documents # <<>>
     /\ ~SomeCallFaulted) =>
        /\ Len(io) >= 1
        /\ io[1].service = "hallucination_grader"
        /\ IF io[1].outcome # "yes"
           THEN /\ Len(io) = 1
                /\ last.label = "not supported"
                /\ pc = "generate"
           ELSE /\ Len(io) = 2
                /\ io[2].service = "answer_grader"
                /\ IF io[2].outcome = "yes"
                   THEN last.label = "useful" /\ pc = "END"
                   ELSE last.label = "not useful" /\ pc = "transform_query"

C14_Witness ==
    /\ last.fn = "grade_generation"
    /\ last.in.retry_count = 1
    /\ Len(io) = 2
    /\ io[1].outcome = "yes"
    /\ io[2].outcome = "no"
    /\ pc = "transform_query"

\* C15: the edge after grade_documents goes to transform_query exactly when
\* the graded passage set is empty and retry_count < 3; in every other case
\* it goes to generate.
C15_DecideEdge ==
    last.fn = "decide_to_generate" =>
        IF last.in.documents = <<>> /\ last.in.retry_count < 3
        THEN pc = "transform_query"
        ELSE pc = "generate"

C15_Witness ==
    /\ last.fn = "decide_to_generate"
    /\ last.in.documents = <<>>
    /\ last.in.retry_count = 3
    /\ pc = "generate"

\* C16: generate run with an empty passage set does not call the generator
\* and answers with the fixed no-information message for the current
\* question; with a non-empty set it calls the generator exactly once, with
\* the current passages and question.
C16_GenerateCallsGeneratorIffDocuments ==
    last.fn = "generate" =>
        IF last.in.documents = <<>>
        THEN /\ io = <<>>
             /\ last.calls.generator = 0
             /\ state.generation = <<"no_information", last.in.question>>
        ELSE /\ Len(io) = 1
             /\ last.calls.generator = 1
             /\ io[1].service = "generator"
             /\ io[1].args = <<last.in.documents, last.in.question>>
             /\ state.generation =
                    IF io[1].outcome[1] = "raised"
                    THEN <<"generation_error", last.in.question>>
                    ELSE <<"llm", io[1].outcome[2]>>

C16_Witness ==
    /\ last.fn = "generate"
    /\ last.in.documents = <<>>
    /\ last.in.question # question0
    /\ state.generation = <<"no_information", last.in.question>>

\* the position of passage d in the sequence docs
Position(docs, d) == CHOOSE i \in 1..Len(docs) : docs[i] = d

\* C17: grade_documents run with retry_count < 2 grades every passage, one
\* call each, in retrieval order; a passage is kept iff its grade is "yes"
\* or its grading call faulted, whatever happened to the passages before
\* it; the output is an order-preserving subsequence of the input.
C17_GradingKeepsYesAndFaulted ==
    (last.fn = "grade_documents" /\ last.in.retry_count < 2) =>
        LET docs == last.in.documents
            out == state.documents
        IN /\ Len(io) = Len(docs)
           /\ \A i \in 1..Len(docs) :
                 /\ io[i].service = "retrieval_grader"
                 /\ io[i].args = <<last.in.question, docs[i]>>
                 /\ (\E j \in 1..Len(out) : out[j] = docs[i])
                        <=> io[i].outcome \in {"yes", "fault"}
           /\ \A j \in 1..Len(out) : \E i \in 1..Len(docs) : docs[i] = out[j]
           /\ \A j, k \in 1..Len(out) :
                 j < k => Position(docs, out[j]) < Position(docs, out[k])

C17_Witness ==
    /\ last.fn = "grade_documents"
    /\ last.in.retry_count < 2
    /\ Len(io) = TopK
    /\ io[1].outcome = "fault"
    /\ io[2].outcome = "no"
    /\ io[3].outcome = "yes"
    /\ state.documents = <<last.in.documents[1], last.in.documents[3]>>

\* C18: when the hallucination grader or the answer grader raises during
\* the generation check, the check returns "useful" and the loop goes to END
\* with the generation it had.
C18_GraderFaultAccepts ==
    (last.fn = "grade_generation" /\ SomeCallFaulted) =>
        /\ last.label = "useful"
        /\ pc = "END"
        /\ state.generation = last.in.generation

C18_Witness ==
    /\ last.fn = "grade_generation"
    /\ last.in.retry_count = 1
    /\ Len(io) = 2
    /\ io[1].outcome = "yes"
    /\ io[2].outcome = "fault"
    /\ pc = "END"

\* C19: when the rewriter faults inside transform_query, the question is
\* left as it was, retry_count is still raised by 1 and the next node is
\* retrieve; faulting rewrites count against the same limit of 3 rewrites.
C19_RewriteFaultStillCounts ==
    (last.fn = "transform_query" /\ SomeCallFaulted) =>
        /\ state.question = last.in.question
        /\ state.retry_count = last.in.retry_count + 1
        /\ state.retry_count <= 3
        /\ visits["transform_query"] = state.retry_count
        /\ pc = "retrieve"

C19_Witness ==
    /\ last.fn = "transform_query"
    /\ SomeCallFaulted
    /\ state.retry_count = 3
    /\ pc = "retrieve"

\* C20: a loop execution starts with retry_count = 0; retry_count changes
\* only in transform_query, which raises it by exactly 1 every time it
\* runs; the question changes only in transform_query; retrieve,
\* grade_documents, generate and both conditional edges leave both as they
\* are.
C20_OnlyTransformQueryChangesRetryAndQuestion ==
    /\ state.retry_count = 0
    /\ [][/\ (pc = "transform_query" /\ pc' = "retrieve")
                => state'.retry_count = state.retry_count + 1
          /\ state'.retry_count # state.retry_count
                => pc = "transform_query" /\ pc' = "retrieve"
          /\ state'.question # state.question
                => pc = "transform_query" /\ pc' = "retrieve"]_vars

C20_Witness ==
    /\ last.fn = "transform_query"
    /\ state.question # last.in.question
    /\ state.retry_count = 2
    /\ visits["generate"] >= 1

\* C21: transform_query uses the aggressive prompt exactly when retry_count
\* after its increment is >= 2: the first rewrite of an execution is normal,
\* the second and third are aggressive, there is no fourth, and the node
\* after every rewrite is retrieve.
C21_AggressiveFromSecondRewrite ==
    last.fn = "transform_query" =>
        /\ pc = "retrieve"
        /\ state.retry_count = last.in.retry_count + 1
        /\ (last.mode = "aggressive") <=> (state.retry_count >= 2)
        /\ (last.mode = "normal") <=> (state.retry_count < 2)
        /\ Len(io) = 1 /\ io[1].service = "rewriter" /\ io[1].args[2] = last.mode
        /\ visits["transform_query"] = 1 => last.mode = "normal"
        /\ visits["transform_query"] \in {2, 3} => last.mode = "aggressive"
        /\ visits["transform_query"] <= 3

\* the third rewrite of an execution has run, in aggressive mode
C21_Witness ==
    /\ last.fn = "transform_query"
    /\ visits["transform_query"] = 3
    /\ last.mode = "aggressive"
    /\ pc = "retrieve"

\* C22: generate is entered with an empty passage list only when
\* retry_count = 3, so whenever the generation check reads an empty passage
\* list retry_count >= 2 holds as well: the "no documents" disjunct of the
\* short circuit accepts nothing the retry-limit disjunct would not accept.
C22_EmptyGenerationOnlyAtThree ==
    /\ (pc = "generate" /\ state.documents = <<>>) => state.retry_count = 3
    /\ (last.fn = "generate" /\ last.in.documents = <<>>) =>
          last.in.retry_count = 3
    /\ (pc = "grade_generation" /\ state.documents = <<>>) =>
          state.retry_count >= 2
    /\ (last.fn = "grade_generation" /\ last.in.documents = <<>>) =>
          /\ last.in.retry_count >= 2
          /\ last.label = "useful"

\* the generation check has accepted an answer generated without passages
C22_Witness ==
    /\ last.fn = "grade_generation"
    /\ last.in.documents = <<>>
    /\ last.in.generation = NoDocsGeneration(last.in.question)
    /\ last.label = "useful"
    /\ pc = "END"

\* the generation check has not returned "not supported" so far: it does so
\* exactly when the hallucination grader returns a grade other than "yes"
NeverUnsupported == \A i \in 1..Len(hallucLog) : hallucLog[i] # "no"

\* at most 4 retrieve, 4 grade_documents, 3 transform_query, 3 generate
WithinFourPasses ==
    /\ steps <= 14
    /\ visits["retrieve"] <= 4
    /\ visits["grade_documents"] <= 4
    /\ visits["transform_query"] <= 3
    /\ visits["generate"] <= 3

\* C23: an execution in which the generation check never returns
\* "not supported" ends at Accept, whatever the other outcomes are, after at
\* most 14 node executions.  Violated: a fault of the retriever ends the
\* execution in run's except branch instead (C10).
C23_NoUnsupportedReachesAccept ==
    (pc = "returned" /\ NeverUnsupported) => (Accepted /\ WithinFourPasses)

\* the part of C23 that holds: without "not supported" the counts stay within
\* the bounds, the step limit is not hit, and an execution that ends without
\* a retriever fault ends at Accept
C23_BoundsWithoutUnsupported ==
    NeverUnsupported =>
        /\ WithinFourPasses
        /\ ~StepLimitHit
        /\ (pc = "returned" /\ last.label # "retrieval_failure") => Accepted

GenerationGraders == {"hallucination_grader", "answer_grader"}

\* C24: the hallucination grader and the answer grader are called only by
\* the generation check, only with retry_count < 2 and a non-empty passage
\* list; the answer grader is called only right after the hallucination
\* grader returned "yes" for the same generation; and the "not useful" edge
\* is taken at most twice in an execution.
C24_GenerationGradersGuarded ==
    /\ \A i \in 1..Len(io) :
          io[i].service \in GenerationGraders =>
              /\ last.fn = "grade_generation"
              /\ last.in.retry_count < 2
              /\ last.in.documents # <<>>
              /\ io[i].args[2] = last.in.generation
    /\ \A i \in 1..Len(io) :
          io[i].service = "answer_grader" =>
              /\ i > 1
              /\ io[i - 1].service = "hallucination_grader"
              /\ io[i - 1].outcome = "yes"
              /\ io[i - 1].args[2] = io[i].args[2]
    /\ (last.calls.hallucination_grader > 0 \/ last.calls.answer_grader > 0) =>
          /\ last.in.retry_count < 2
          /\ last.in.documents # <<>>
    /\ tq_from.generate <= 2

\* the answer grader has been called and "not useful" taken a second time
C24_Witness ==
    /\ last.fn = "grade_generation"
    /\ Len(io) = 2
    /\ io[2].service = "answer_grader"
    /\ last.label = "not useful"
    /\ tq_from.generate = 2

\* the graph has reached END, and run may already have returned its state
AcceptedByGraph == pc = "END" \/ Accepted

\* the generations generate can return for a question and a passage list
GenerationsFor(q, docs) ==
    IF docs = <<>> THEN {NoDocsGeneration(q)}
    ELSE {LlmGeneration(a) : a \in Answers} \cup {GenerationErrorMessage(q)}

\* C25: when an execution reaches Accept through the graph, the node
\* executed last was generate, it read exactly the question and the passages
\* of the final state, and the generation of the final state is one generate
\* returns for them.
C25_AnswerFromFinalInputs ==
    AcceptedByGraph =>
        /\ genStreak # <<>>
        /\ genStreak[Len(genStreak)] = GenInput(state)
        /\ state.generation \in GenerationsFor(state.question, state.documents)
        /\ last.label = "useful"
        /\ last.in = state
        /\ Accepted => result = state

\* run has returned an answer generated from passages for a rewritten question
C25_Witness ==
    /\ Accepted
    /\ result = state
    /\ state.documents # <<>>
    /\ state.question # question0
    /\ state.generation \in {LlmGeneration(a) : a \in Answers}

(***************************************************************************)
(* Properties of AdaptiveFlow                                              *)
(***************************************************************************)
\* C11: the router follows the classification: when the classifier selects
\* the web-search datasource the request enters the web-search path at
\* transform_query, and when it selects the self-flow datasource the request
\* enters call_self_rag.  Violated: route_query compares the datasource with
\* "web-search" while the classifier's value is "web_search".
C11_RouterFollowsDatasource ==
    alast.fn = "route_query" =>
        /\ alast.datasource = "web_search" => apc = "transform_query"
        /\ alast.datasource = "self-flow" => apc = "call_self_rag"

\* C12: on the web-search path no stage fault aborts the pipeline: run's
\* except branch is never taken.  Violated: transform_query of AdaptiveFlow
\* has no handler around the rewriter.
C12_NoWebStageFaultAborts == alast.fn # "except"

\* C13: AdaptiveFlow.run always returns a result; when a fault reaches its
\* outer boundary the result has the original question, empty documents and
\* the fixed error message, and a fault inside SelfFlow.run does not reach it.
C13_RunReturnsFallbackOnFault ==
    /\ apc = "returned" => aresult # NoResult
    /\ alast.fn = "except" =>
          /\ apc = "returned"
          /\ aresult = [question |-> aquestion,
                        generation |-> AdaptiveErrorMessage(aquestion),
                        documents |-> <<>>]
    /\ (apc = "returned" /\ last.fn = "except") =>
          aresult = [question |-> aquestion,
                     generation |-> ApologyMessage(aquestion),
                     documents |-> <<>>]

\* the routing classifier raised and run returned
C13_Witness ==
    /\ apc = "returned"
    /\ alast.fn = "except"
    /\ alast.cause = "route_query"
    /\ aresult # NoResult

(***************************************************************************)
(* Properties of CragFlow                                                  *)
(***************************************************************************)
WebBranch ==
    <<"retrieve", "grade_documents", "transform_query", "web_search_node",
      "generate">>
DirectBranch == <<"retrieve", "grade_documents", "generate">>

\* the grading pass graded at least one passage other than "yes"
SomeIrrelevant ==
    \E i \in 1..Len(cgraded.grades) : cgraded.grades[i] # "yes"

\* the nodes executed so far are the first nodes of branch, and the
\* execution stands where branch says: at its next node, at the end after
\* its last node, or stopped by an exception
Follows(branch) ==
    /\ Len(ctrace) <= Len(branch)
    /\ \A i \in 1..Len(ctrace) : ctrace[i] = branch[i]
    /\ \/ cpc = "raised"
       \/ Len(ctrace) < Len(branch) /\ cpc = branch[Len(ctrace) + 1]
       \/ Len(ctrace) = Len(branch) /\ cpc \in {"END", "returned"}

\* C26: after grading, the corrective run goes through transform_query and
\* web_search_node to generate exactly when at least one retrieved passage
\* was graded not relevant, also when others were kept; when every passage
\* was graded relevant, or none was retrieved, it goes straight to generate
\* and no web search runs.
C26_WebSearchIffSomeIrrelevant ==
    (cgraded.done /\ cpc # "decide_to_generate") =>
        /\ SomeIrrelevant => Follows(WebBranch)
        /\ ~SomeIrrelevant => Follows(DirectBranch)
        /\ SomeIrrelevant <=> (cstate.web_search = "Yes")
        /\ Len(cgraded.grades) = Len(cgraded.documents)

\* a run with one passage kept and one rejected has returned through the
\* web search
C26_Witness ==
    /\ cpc = "returned"
    /\ ctrace = WebBranch
    /\ \E i \in 1..Len(cgraded.grades) : cgraded.grades[i] = "yes"
    /\ \E i \in 1..Len(cgraded.grades) : cgraded.grades[i] = "no"
    /\ Len(cresult.documents) >= 2

\* a run whose retriever returned nothing has returned without web search
C26_WitnessNoPassages ==
    /\ cpc = "returned"
    /\ cgraded.done
    /\ cgraded.documents = <<>>
    /\ ctrace = DirectBranch

=============================================================================
